---- MODULE Spec2Model ----
(***************************************************************************)
(* Model of salary_app.py: the rate table, the policy constants, and the   *)
(* two functions calculate_paid_days and calculate_salary.                 *)
(*                                                                         *)
(* Representation                                                          *)
(*   - a string is a sequence of one-character strings, so that            *)
(*     str.upper() and str.title() are computed character by character;   *)
(*   - a calendar date given by the caller is a triple <<year, month,      *)
(*     day>>; a Timestamp is its proleptic Gregorian ordinal (day 1 is     *)
(*     0001-01-01, a Monday), so that comparison and ranges are linear;    *)
(*   - money is exact: an amount is a rational whose numerator is an       *)
(*     unbounded natural held as base-1000 limbs (least significant        *)
(*     first); rounding to two decimals is round-half-even to cents;       *)
(*   - 0.377 and 0.052 are held in thousandths (377 and 52), an fte is     *)
(*     [num, exp] standing for num / 10^exp.                               *)
(***************************************************************************)
EXTENDS Integers, Sequences, FiniteSets, TLC

\* ------------------------------------------------------------------
\* Strings
\* ------------------------------------------------------------------
LowerCase ==
  <<"a","b","c","d","e","f","g","h","i","j","k","l","m",
    "n","o","p","q","r","s","t","u","v","w","x","y","z">>

UpperCase ==
  <<"A","B","C","D","E","F","G","H","I","J","K","L","M",
    "N","O","P","Q","R","S","T","U","V","W","X","Y","Z">>

IsLower(c) == \E i \in 1..26 : LowerCase[i] = c

IsUpper(c) == \E i \in 1..26 : UpperCase[i] = c

IsCased(c) == IsLower(c) \/ IsUpper(c)

UpperChar(c) ==
  IF IsLower(c) THEN UpperCase[CHOOSE i \in 1..26 : LowerCase[i] = c] ELSE c

LowerChar(c) ==
  IF IsUpper(c) THEN LowerCase[CHOOSE i \in 1..26 : UpperCase[i] = c] ELSE c

\* str.upper()
Upper(s) == [i \in 1..Len(s) |-> UpperChar(s[i])]

\* str.lower()
Lower(s) == [i \in 1..Len(s) |-> LowerChar(s[i])]

\* str.title(): a cased character is upper-cased when the character before
\* it is not cased (or there is none), lower-cased otherwise.
Title(s) ==
  [i \in 1..Len(s) |->
     IF i > 1 /\ IsCased(s[i-1]) THEN LowerChar(s[i]) ELSE UpperChar(s[i])]

\* ------------------------------------------------------------------
\* Calendar
\* ------------------------------------------------------------------
IsLeap(y) == (y % 4 = 0) /\ ((y % 100 # 0) \/ (y % 400 = 0))

DaysInMonth(y, m) ==
  IF m = 2 THEN (IF IsLeap(y) THEN 29 ELSE 28)
  ELSE IF m \in {4, 6, 9, 11} THEN 30 ELSE 31

DaysBeforeYear(y) ==
  (y-1) * 365 + ((y-1) \div 4) - ((y-1) \div 100) + ((y-1) \div 400)

RECURSIVE DaysBeforeMonth(_, _)
DaysBeforeMonth(y, m) ==
  IF m = 1 THEN 0 ELSE DaysBeforeMonth(y, m-1) + DaysInMonth(y, m-1)

\* datetime(y, m, d) / pd.to_datetime of a calendar date: the day's ordinal
Ymd2Ord(ymd) == DaysBeforeYear(ymd[1]) + DaysBeforeMonth(ymd[1], ymd[2]) + ymd[3]

\* Timestamp.year / .month / .day / .date()
Ord2Ymd(n) ==
  LET y == CHOOSE yy \in ((n \div 366) + 1)..((n \div 365) + 1) :
             DaysBeforeYear(yy) < n /\ n <= DaysBeforeYear(yy + 1)
      r == n - DaysBeforeYear(y)
      m == CHOOSE mm \in 1..12 :
             DaysBeforeMonth(y, mm) < r /\ r <= DaysBeforeMonth(y, mm) + DaysInMonth(y, mm)
  IN <<y, m, r - DaysBeforeMonth(y, m)>>

\* Timestamp.weekday(): Monday is 0, Sunday is 6
Weekday(n) == (n + 6) % 7

\* the step names of the dataset
Base == <<"B","a","s","e">>

BasePlus(n) == Base \o <<" ", "+", n>>

\* ------------------------------------------------------------------
\* Inputs of the calls that are explored
\* ------------------------------------------------------------------
Window == 2

IncreaseDay == Ymd2Ord(<<2026, 7, 1>>)

Levels == { <<"A">>, <<"a">>, <<"e">>, <<"F">> }

BaseLevels ==
  { Base, <<"b","a","s","e"," ","+","1">>, <<"B","A","S","E"," ","+","7">>,
    BasePlus("8") }

\* Fri before a Saturday holiday, that Saturday, a Monday holiday before the
\* increase, a plain Saturday after it, a Monday holiday after it, and a
\* Friday holiday of the next year; then every day around the increase date.
Dates ==
  { <<2026,4,24>>, <<2026,4,25>>, <<2026,6,8>>, <<2026,7,4>>, <<2026,8,3>>,
    <<2027,1,1>> }
  \cup { Ord2Ymd(n) : n \in (IncreaseDay - Window)..(IncreaseDay + Window) }

Fte(num, exp) == [num |-> num, exp |-> exp]

\* -0.5, 0, 0.0000001, 0.000001, 0.1, 0.5, 1, 1.5
Ftes ==
  { Fte(0-5, 1), Fte(0, 0), Fte(1, 7), Fte(1, 6), Fte(1, 1), Fte(5, 1),
    Fte(1, 0), Fte(15, 1) }

OrdinalsOf(dates) == { Ymd2Ord(d) : d \in dates }

FirstDay == CHOOSE n \in OrdinalsOf(Dates) : \A k \in OrdinalsOf(Dates) : n <= k

LastDay == CHOOSE n \in OrdinalsOf(Dates) : \A k \in OrdinalsOf(Dates) : k <= n

\* ------------------------------------------------------------------
\* Exact naturals as base-1000 limbs, least significant limb first
\* ------------------------------------------------------------------
Limb == 1000

RECURSIVE BigFromInt(_)
BigFromInt(n) == IF n = 0 THEN <<>> ELSE <<n % Limb>> \o BigFromInt(n \div Limb)

RECURSIVE BigToInt(_)
BigToInt(a) == IF a = <<>> THEN 0 ELSE a[1] + Limb * BigToInt(Tail(a))

RECURSIVE BigMulCarry(_, _, _)
BigMulCarry(a, m, carry) ==
  IF a = <<>> THEN BigFromInt(carry)
  ELSE LET t == a[1] * m + carry
       IN <<t % Limb>> \o BigMulCarry(Tail(a), m, t \div Limb)

\* a * m for 0 <= m <= 2000000
BigMul(a, m) == IF m = 0 THEN <<>> ELSE BigMulCarry(a, m, 0)

RECURSIVE BigAddCarry(_, _, _)
BigAddCarry(a, b, carry) ==
  IF a = <<>> /\ b = <<>> THEN BigFromInt(carry)
  ELSE LET x == IF a = <<>> THEN 0 ELSE a[1]
           y == IF b = <<>> THEN 0 ELSE b[1]
           t == x + y + carry
       IN <<t % Limb>> \o BigAddCarry(IF a = <<>> THEN a ELSE Tail(a),
                                      IF b = <<>> THEN b ELSE Tail(b),
                                      t \div Limb)

RECURSIVE BigStrip(_)
BigStrip(a) ==
  IF a = <<>> THEN a
  ELSE IF a[Len(a)] = 0 THEN BigStrip(SubSeq(a, 1, Len(a) - 1)) ELSE a

BigAdd(a, b) == BigStrip(BigAddCarry(a, b, 0))

\* <<quotient limbs with leading zeros, remainder>> of a / d, 1 <= d <= 2000000
RECURSIVE BigDivRem(_, _)
BigDivRem(a, d) ==
  IF a = <<>> THEN <<a, 0>>
  ELSE LET hi == BigDivRem(Tail(a), d)
           t  == hi[2] * Limb + a[1]
       IN <<(<<t \div d>>) \o hi[1], t % d>>

BigDiv(a, d) == BigStrip(BigDivRem(a, d)[1])

BigMod(a, d) == BigDivRem(a, d)[2]

\* floor(a / (ds[1] * ... * ds[n]))
RECURSIVE BigDivAll(_, _)
BigDivAll(a, ds) ==
  IF ds = <<>> THEN a ELSE BigDivAll(BigDiv(a, ds[1]), Tail(ds))

\* a is a multiple of ds[1] * ... * ds[n]
RECURSIVE BigDivides(_, _)
BigDivides(a, ds) ==
  IF ds = <<>> THEN TRUE
  ELSE BigMod(a, ds[1]) = 0 /\ BigDivides(BigDiv(a, ds[1]), Tail(ds))

\* round(a / (ds[1] * ... * ds[n])) to the nearest integer, ties to even
RoundHalfEven(a, ds) ==
  LET twice == BigMul(a, 2)
      h     == BigToInt(BigDivAll(twice, ds))
      tie   == (h % 2 = 1) /\ BigDivides(twice, ds)
      q     == h \div 2
  IN IF h % 2 = 0 THEN q
     ELSE IF tie THEN (IF q % 2 = 0 THEN q ELSE q + 1)
     ELSE q + 1

RECURSIVE Pow10(_)
Pow10(e) == IF e = 0 THEN 1 ELSE 10 * Pow10(e - 1)

RECURSIVE Tens(_)
Tens(e) == IF e = 0 THEN <<>> ELSE <<10>> \o Tens(e - 1)

\* ------------------------------------------------------------------
\* Exact non-negative rationals with a sign: num / (den[1] * ... * den[n])
\* ------------------------------------------------------------------
Rat(neg, num, den) == [neg |-> neg /\ num # <<>>, num |-> num, den |-> den]

\* round(x, 2) of an amount held in cents: the nearest cent, ties to even
Round2(x) ==
  LET r == RoundHalfEven(x.num, x.den) IN IF x.neg THEN 0 - r ELSE r

\* ------------------------------------------------------------------
\* Example dataset
\* ------------------------------------------------------------------
data ==
  ( "LEVEL" :>
      << <<"A">>,<<"A">>,<<"A">>,<<"A">>,<<"A">>,<<"A">>,<<"A">>,<<"A">>,
         <<"B">>,<<"B">>,<<"B">>,<<"B">>,<<"B">>,<<"B">>,
         <<"C">>,<<"C">>,<<"C">>,<<"C">>,<<"C">>,<<"C">>,
         <<"D">>,<<"D">>,<<"D">>,<<"D">>,
         <<"E">> >> ) @@
  ( "Base Level" :>
      << Base,BasePlus("1"),BasePlus("2"),BasePlus("3"),BasePlus("4"),BasePlus("5"),BasePlus("6"),BasePlus("7"),
         Base,BasePlus("1"),BasePlus("2"),BasePlus("3"),BasePlus("4"),BasePlus("5"),
         Base,BasePlus("1"),BasePlus("2"),BasePlus("3"),BasePlus("4"),BasePlus("5"),
         Base,BasePlus("1"),BasePlus("2"),BasePlus("3"),
         Base >> ) @@
  ( "Yearly Salary" :>    \* in cents
      << 7809213,8247471,8685620,9124203,9480219,9836669,10192686,10548378,
         11096687,11507892,11918231,12329544,12740424,13151413,
         13562077,13973390,14383837,14795258,15205598,15617235,
         16301675,16849551,17397319,17945196,
         20959111 >> )

\* pd.DataFrame(data): one row per index of the three columns
DataFrame(d) ==
  [i \in 1..Len(d["LEVEL"]) |->
     ( "LEVEL" :> d["LEVEL"][i] ) @@
     ( "Base Level" :> d["Base Level"][i] ) @@
     ( "Yearly Salary" :> d["Yearly Salary"][i] )]

\* ------------------------------------------------------------------
\* Helper: calculate paid working days
\* ------------------------------------------------------------------
InList(x, list) == \E i \in 1..Len(list) : list[i] = x

\* pd.date_range(start, end, freq='D'): empty when end is before start
DateRange(start, end) ==
  IF end < start THEN <<>> ELSE [i \in 1..(end - start + 1) |-> start + i - 1]

IsMonFri(d) == Weekday(d) < 5

\* (d.day, d.month)
DayMonth(d) == LET ymd == Ord2Ymd(d) IN <<ymd[3], ymd[2]>>

\* (d.day, d.month) for each d of the explored period, tabulated once
DayMonthOf == [d \in FirstDay..LastDay |-> DayMonth(d)]

\* variant of calculate_paid_days: Saturdays count as weekdays
calculate_paid_days_six_day_week(start, end, public_holidays, annual_leave) ==
  LET all_days       == DateRange(start, end)
      IsMonSat(d)    == Weekday(d) < 6
      weekdays       == SelectSeq(all_days, IsMonSat)
      IsHoliday(d)   == InList(DayMonthOf[d], public_holidays)
      holidays_dates == SelectSeq(weekdays, IsHoliday)
      IsWorking(d)   == ~ InList(d, holidays_dates)
      working_days   == SelectSeq(weekdays, IsWorking)
  IN <<Len(working_days), Len(working_days) + annual_leave>>

\* variant of calculate_paid_days: the leave is pro-rated by the length of the
\* range (in whole days)
calculate_paid_days_prorated(start, end, public_holidays, annual_leave) ==
  LET all_days       == DateRange(start, end)
      weekdays       == SelectSeq(all_days, IsMonFri)
      IsHoliday(d)   == InList(DayMonthOf[d], public_holidays)
      holidays_dates == SelectSeq(weekdays, IsHoliday)
      IsWorking(d)   == ~ InList(d, holidays_dates)
      working_days   == SelectSeq(weekdays, IsWorking)
  IN <<Len(working_days),
       Len(working_days) + ((annual_leave * Len(all_days)) \div 365)>>

\* <<len(working_days), total_paid_days>>
calculate_paid_days(start, end, public_holidays, annual_leave) ==
  LET all_days       == DateRange(start, end)
      weekdays       == SelectSeq(all_days, IsMonFri)
      IsHoliday(d)   == InList(DayMonthOf[d], public_holidays)
      holidays_dates == SelectSeq(weekdays, IsHoliday)
      IsWorking(d)   == ~ InList(d, holidays_dates)
      working_days   == SelectSeq(weekdays, IsWorking)
      total_paid_days == Len(working_days) + annual_leave
  IN <<Len(working_days), total_paid_days>>

\* ------------------------------------------------------------------
\* Salary calculation function: its pure parts
\* ------------------------------------------------------------------
\* variant of MatchingRows: the step is not compared
MatchingRowsAnyStep(table, lvl, base) ==
  LET upper == Upper(lvl)
      Matches(r) == r["LEVEL"] = upper
  IN SelectSeq(table, Matches)

\* df[(df['LEVEL'] == level.upper()) & (df['Base Level'] == base_level.title())]
MatchingRows(table, lvl, base) ==
  LET upper == Upper(lvl)
      title == Title(base)
      Matches(r) == r["LEVEL"] = upper /\ r["Base Level"] = title
  IN SelectSeq(table, Matches)

\* variant of Branch: a range ending on the increase date counts as before it
BranchInclusive(start, end, increase_date) ==
  IF end <= increase_date THEN "before"
  ELSE IF start >= increase_date THEN "after"
  ELSE "straddle"

\* which arm of the if / elif / else on the increase date is taken
Branch(start, end, increase_date) ==
  IF end < increase_date THEN "before"
  ELSE IF start >= increase_date THEN "after"
  ELSE "straddle"

\* (yearly_salary / WORKING_DAYS_PER_YEAR) * (1 + ON_COST_RATE), in cents
DailySalary(yearly_salary, working_days_per_year, on_cost_rate) ==
  Rat(FALSE, BigMul(BigFromInt(yearly_salary), 1000 + on_cost_rate),
      <<working_days_per_year, 1000>>)

AbsInt(n) == IF n < 0 THEN 0 - n ELSE n

\* paid_before * daily_salary * fte
SalaryBefore(paid, daily, f) ==
  Rat(f.num < 0, BigMul(BigMul(daily.num, paid), AbsInt(f.num)),
      daily.den \o Tens(f.exp))

\* variant of SalaryAfter: the amount after the increase is not scaled by fte
SalaryAfterUnscaled(paid, daily, increase_rate, f) ==
  Rat(FALSE,
      BigMul(BigMul(BigMul(daily.num, paid), 1000 + increase_rate), Pow10(f.exp)),
      (daily.den \o <<1000>>) \o Tens(f.exp))

\* paid_after * daily_salary * (1 + SALARY_INCREASE_RATE) * fte
SalaryAfter(paid, daily, increase_rate, f) ==
  Rat(f.num < 0,
      BigMul(BigMul(BigMul(daily.num, paid), 1000 + increase_rate), AbsInt(f.num)),
      (daily.den \o <<1000>>) \o Tens(f.exp))

\* salary_before + salary_after; both carry the sign of fte, and the
\* denominator of salary_after is 1000 times that of salary_before
TotalSalary(before, after) ==
  Rat(before.neg \/ after.neg, BigAdd(BigMul(before.num, 1000), after.num),
      (SubSeq(before.den, 1, 2) \o <<1000>>) \o SubSeq(before.den, 3, Len(before.den)))

ErrorResult == ( "Error" :> "No matching LEVEL and Base Level found." )

Zero == Rat(FALSE, <<>>, <<>>)

\* ------------------------------------------------------------------
\* State
\* ------------------------------------------------------------------
VARIABLES
  df, ON_COST_RATE, SALARY_INCREASE_DATE, SALARY_INCREASE_RATE,
  ANNUAL_LEAVE_DAYS, WORKING_DAYS_PER_YEAR, PUBLIC_HOLIDAYS,
  level, base_level, start_date, end_date, fte,
  row, work_before, paid_before, work_after, paid_after,
  daily_salary, salary_before, salary_after, total_salary,
  counted_before, counted_after, result, pc

globals ==
  <<df, ON_COST_RATE, SALARY_INCREASE_DATE, SALARY_INCREASE_RATE,
    ANNUAL_LEAVE_DAYS, WORKING_DAYS_PER_YEAR, PUBLIC_HOLIDAYS>>

args == <<level, base_level, start_date, end_date, fte>>

days == <<work_before, paid_before, work_after, paid_after>>

money == <<daily_salary, salary_before, salary_after, total_salary>>

\* the sub-ranges handed to calculate_paid_days for each side, in call order
counted == <<counted_before, counted_after>>

vars == <<globals, args, row, days, money, counted, result, pc>>

\* the frame of a call that has not started
NoFrame ==
  /\ level = <<>> /\ base_level = <<>> /\ start_date = <<>> /\ end_date = <<>>
  /\ fte = Fte(0, 0)
  /\ row = <<>>
  /\ work_before = 0 /\ paid_before = 0 /\ work_after = 0 /\ paid_after = 0
  /\ daily_salary = Zero /\ salary_before = Zero /\ salary_after = Zero
  /\ total_salary = Zero
  /\ counted_before = <<>> /\ counted_after = <<>>
  /\ result = <<>>

\* the module has been imported: dataset and configuration are in place
Init ==
  /\ df = DataFrame(data)
  /\ ON_COST_RATE = 377
  /\ SALARY_INCREASE_DATE = Ymd2Ord(<<2026, 7, 1>>)
  /\ SALARY_INCREASE_RATE = 52
  /\ ANNUAL_LEAVE_DAYS = 20
  /\ WORKING_DAYS_PER_YEAR = 227
  /\ PUBLIC_HOLIDAYS =
       << <<1,1>>, <<26,1>>, <<3,4>>, <<6,4>>, <<25,4>>, <<8,6>>,
          <<3,8>>, <<5,10>>, <<25,12>>, <<28,12>>,
          <<29,12>>, <<30,12>>, <<31,12>> >>
  /\ NoFrame
  /\ pc = "idle"

\* ------------------------------------------------------------------
\* calculate_salary(level, base_level, start_date, end_date, fte)
\* ------------------------------------------------------------------
Call(l, b, s, e, f) ==
  /\ pc = "idle"
  /\ level' = l /\ base_level' = b /\ start_date' = s /\ end_date' = e
  /\ fte' = f
  /\ pc' = "lookup"
  /\ UNCHANGED <<globals, row, days, money, counted, result>>

\* row.empty: return the error mapping
LookupFail ==
  /\ pc = "lookup"
  /\ MatchingRows(df, level, base_level) = <<>>
  /\ row' = MatchingRows(df, level, base_level)
  /\ result' = ErrorResult
  /\ pc' = "done"
  /\ UNCHANGED <<globals, args, days, money, counted>>

\* a row was found: parse the two dates
LookupFound ==
  /\ pc = "lookup"
  /\ MatchingRows(df, level, base_level) # <<>>
  /\ row' = MatchingRows(df, level, base_level)
  /\ start_date' = Ymd2Ord(start_date)
  /\ end_date' = Ymd2Ord(end_date)
  /\ pc' = "split"
  /\ UNCHANGED <<globals, level, base_level, fte, days, money,
                 counted, result>>

\* variant of CountBefore: the count consumes the first entry of the shared
\* holiday list
CountBeforeConsumingHoliday ==
  /\ pc = "split"
  /\ Branch(start_date, end_date, SALARY_INCREASE_DATE) = "before"
  /\ LET r == calculate_paid_days(start_date, end_date, PUBLIC_HOLIDAYS,
                                  ANNUAL_LEAVE_DAYS)
     IN /\ work_before' = r[1] /\ paid_before' = r[2]
        /\ work_after' = 0 /\ paid_after' = 0
  /\ counted_before' = Append(counted_before, <<start_date, end_date>>)
  /\ counted_after' = counted_after
  /\ PUBLIC_HOLIDAYS' = Tail(PUBLIC_HOLIDAYS)
  /\ pc' = "pay"
  /\ UNCHANGED <<df, ON_COST_RATE, SALARY_INCREASE_DATE, SALARY_INCREASE_RATE,
                 ANNUAL_LEAVE_DAYS, WORKING_DAYS_PER_YEAR, args, row, money,
                 result>>

CountBefore ==
  /\ pc = "split"
  /\ Branch(start_date, end_date, SALARY_INCREASE_DATE) = "before"
  /\ LET r == calculate_paid_days(start_date, end_date, PUBLIC_HOLIDAYS,
                                  ANNUAL_LEAVE_DAYS)
     IN /\ work_before' = r[1] /\ paid_before' = r[2]
        /\ work_after' = 0 /\ paid_after' = 0
  /\ counted_before' = Append(counted_before, <<start_date, end_date>>)
  /\ counted_after' = counted_after
  /\ pc' = "pay"
  /\ UNCHANGED <<globals, args, row, money, result>>

CountAfter ==
  /\ pc = "split"
  /\ Branch(start_date, end_date, SALARY_INCREASE_DATE) = "after"
  /\ LET r == calculate_paid_days(start_date, end_date, PUBLIC_HOLIDAYS,
                                  ANNUAL_LEAVE_DAYS)
     IN /\ work_before' = 0 /\ paid_before' = 0
        /\ work_after' = r[1] /\ paid_after' = r[2]
  /\ counted_before' = counted_before
  /\ counted_after' = Append(counted_after, <<start_date, end_date>>)
  /\ pc' = "pay"
  /\ UNCHANGED <<globals, args, row, money, result>>

CountStraddle ==
  /\ pc = "split"
  /\ Branch(start_date, end_date, SALARY_INCREASE_DATE) = "straddle"
  /\ LET rb == calculate_paid_days(start_date, SALARY_INCREASE_DATE - 1,
                                   PUBLIC_HOLIDAYS, ANNUAL_LEAVE_DAYS)
         ra == calculate_paid_days(SALARY_INCREASE_DATE, end_date,
                                   PUBLIC_HOLIDAYS, ANNUAL_LEAVE_DAYS)
     IN /\ work_before' = rb[1] /\ paid_before' = rb[2]
        /\ work_after' = ra[1] /\ paid_after' = ra[2]
  /\ counted_before' =
       Append(counted_before, <<start_date, SALARY_INCREASE_DATE - 1>>)
  /\ counted_after' = Append(counted_after, <<SALARY_INCREASE_DATE, end_date>>)
  /\ pc' = "pay"
  /\ UNCHANGED <<globals, args, row, money, result>>

\* daily salary, the two amounts, their sum, and the returned mapping
Pay ==
  /\ pc = "pay"
  /\ LET yearly_salary == row[1]["Yearly Salary"]
         daily  == DailySalary(yearly_salary, WORKING_DAYS_PER_YEAR, ON_COST_RATE)
         before == SalaryBefore(paid_before, daily, fte)
         after  == SalaryAfter(paid_after, daily, SALARY_INCREASE_RATE, fte)
         total  == TotalSalary(before, after)
     IN /\ daily_salary' = daily
        /\ salary_before' = before
        /\ salary_after' = after
        /\ total_salary' = total
        /\ result' =
             ( "Level" :> level ) @@
             ( "Base Level" :> base_level ) @@
             ( "Start Date" :> Ord2Ymd(start_date) ) @@
             ( "End Date" :> Ord2Ymd(end_date) ) @@
             ( "FTE" :> fte ) @@
             ( "Working Days Before Increase" :> work_before ) @@
             ( "Working Days After Increase" :> work_after ) @@
             ( "Paid Days Before Increase" :> paid_before ) @@
             ( "Paid Days After Increase" :> paid_after ) @@
             ( "Daily Salary (with costs)" :> Round2(daily) ) @@
             ( "Total Salary" :> Round2(total) )
  /\ pc' = "done"
  /\ UNCHANGED <<globals, args, row, days, counted>>

\* the caller has the returned mapping; the frame is gone
Return ==
  /\ pc = "done"
  /\ level' = <<>> /\ base_level' = <<>> /\ start_date' = <<>> /\ end_date' = <<>>
  /\ fte' = Fte(0, 0)
  /\ row' = <<>>
  /\ work_before' = 0 /\ paid_before' = 0 /\ work_after' = 0 /\ paid_after' = 0
  /\ daily_salary' = Zero /\ salary_before' = Zero /\ salary_after' = Zero
  /\ total_salary' = Zero
  /\ counted_before' = <<>> /\ counted_after' = <<>>
  /\ result' = <<>>
  /\ pc' = "idle"
  /\ UNCHANGED globals

Next ==
  \/ /\ pc = "idle"
     /\ \E l \in Levels, b \in BaseLevels, s \in Dates, e \in Dates, f \in Ftes :
          Call(l, b, s, e, f)
  \/ LookupFail
  \/ LookupFound
  \/ CountBefore
  \/ CountAfter
  \/ CountStraddle
  \/ Pay
  \/ Return

Spec == Init /\ [][Next]_vars

\* ------------------------------------------------------------------
\* Properties
\* ------------------------------------------------------------------
Returned == pc = "done"

IsError(r) == DOMAIN r = {"Error"}

IsSalary(r) == "Total Salary" \in DOMAIN r

\* the pair names a row of the dataset, letter case aside
InTable(lvl, base) ==
  \E i \in 1..Len(df) :
    /\ Lower(df[i]["LEVEL"]) = Lower(lvl)
    /\ Lower(df[i]["Base Level"]) = Lower(base)

\* a call that found its row and has counted its days; from here on
\* start_date and end_date are Timestamps
Counted == pc \in {"pay", "done"} /\ row # <<>>

FteInRange(f) == f.num > 0 /\ f.num <= Pow10(f.exp)

\* C1: a request whose end_date is before its start_date (grade and step in
\* the table) returns a validation error and no salary result.
C1_ReversedRangeIsError ==
  (Returned /\ row # <<>> /\ FteInRange(fte) /\ end_date < start_date)
    => (IsError(result) /\ ~ IsSalary(result))

\* C2: a request whose fte is outside (0, 1] returns a validation error and
\* no salary result.
C2_FteOutOfRangeIsError ==
  (Returned /\ ~ FteInRange(fte)) => (IsError(result) /\ ~ IsSalary(result))

\* C3: for a (grade, step) pair that is not in the rate table the call returns
\* the mapping that carries only the error message, and it gets there from
\* the lookup alone: no row, no date parsed, no day counted, no amount.
C3_UnknownPairIsErrorOnly ==
  (pc # "idle" /\ ~ InTable(level, base_level))
    => /\ pc \in {"lookup", "done"}
       /\ row = <<>>
       /\ counted_before = <<>> /\ counted_after = <<>>
       /\ days = <<0, 0, 0, 0>>
       /\ money = <<Zero, Zero, Zero, Zero>>
       /\ Returned => result = ErrorResult

C3_Witness ==
  /\ Returned
  /\ level = <<"e">> /\ base_level = <<"b","a","s","e"," ","+","1">>
  /\ ~ InTable(level, base_level)
  /\ result = ErrorResult

DatesOf(ranges) == UNION { r[1]..r[2] : r \in { ranges[i] : i \in 1..Len(ranges) } }

\* C4: with start_date <= end_date the before side is counted over exactly
\* the dates of the range before the increase date and the after side over
\* exactly those on or after it; an empty side has zero days and a zero
\* amount; a straddling range is cut at the increase date.
C4_SplitAtIncreaseDate ==
  (Counted /\ start_date <= end_date)
    => LET inc == SALARY_INCREASE_DATE
           BeforeDates == { d \in start_date..end_date : d < inc }
           AfterDates == { d \in start_date..end_date : d >= inc }
       IN /\ DatesOf(counted_before) = BeforeDates
          /\ DatesOf(counted_after) = AfterDates
          /\ (AfterDates = {}) =>
               /\ counted_after = <<>>
               /\ work_after = 0 /\ paid_after = 0
               /\ Returned => (salary_after.num = <<>>
                                /\ result["Paid Days After Increase"] = 0)
          /\ (BeforeDates = {}) =>
               /\ counted_before = <<>>
               /\ work_before = 0 /\ paid_before = 0
               /\ Returned => (salary_before.num = <<>>
                                /\ result["Paid Days Before Increase"] = 0)
          /\ (BeforeDates # {} /\ AfterDates # {}) =>
               /\ counted_before = << <<start_date, inc - 1>> >>
               /\ counted_after = << <<inc, end_date>> >>

C4_Witness ==
  /\ Returned /\ row # <<>>
  /\ start_date < SALARY_INCREASE_DATE /\ end_date = SALARY_INCREASE_DATE
  /\ counted_before = << <<start_date, SALARY_INCREASE_DATE - 1>> >>
  /\ counted_after = << <<SALARY_INCREASE_DATE, SALARY_INCREASE_DATE>> >>

\* C5: for a straddling range the paid days of the two sides add up, within
\* less than a day, to the paid days calculate_paid_days gives for the whole
\* range.
C5_SplitSumEqualsWhole ==
  (Counted /\ counted_before # <<>> /\ counted_after # <<>>)
    => LET whole == calculate_paid_days(start_date, end_date, PUBLIC_HOLIDAYS,
                                        ANNUAL_LEAVE_DAYS)[2]
           diff == (paid_before + paid_after) - whole
       IN AbsInt(diff) < 1

\* C6: the leave added to a counted sub-range is 20 * (its inclusive calendar
\* days) / 365.
C6_LeaveIsProRated ==
  Counted
    => /\ \A i \in 1..Len(counted_before) :
            365 * (paid_before - work_before)
              = 20 * Len(DateRange(counted_before[i][1], counted_before[i][2]))
       /\ \A i \in 1..Len(counted_after) :
            365 * (paid_after - work_after)
              = 20 * Len(DateRange(counted_after[i][1], counted_after[i][2]))

\* the factors k = num / 10^exp of (0, 1] that are tried: 0.1, 0.3, 0.5, 1
Factors == { Fte(1, 1), Fte(3, 1), Fte(5, 1), Fte(1, 0) }

FteTimes(f, k) == Fte(f.num * k.num, f.exp + k.exp)

\* the Total Salary (in cents) the call returns when its fte is f and
\* everything else is as in the current call
TotalSalaryFor(f) ==
  Round2(TotalSalary(SalaryBefore(paid_before, daily_salary, f),
                     SalaryAfter(paid_after, daily_salary, SALARY_INCREASE_RATE, f)))

\* C7 as claimed: the returned Total Salary for fte = k * f is exactly k
\* times the returned Total Salary for fte = f (shown for f in (0, 1]).
C7_TotalScalesExactly ==
  (Returned /\ IsSalary(result) /\ start_date <= end_date /\ FteInRange(fte))
    => \A k \in Factors :
         Pow10(k.exp) * TotalSalaryFor(FteTimes(fte, k))
           = k.num * result["Total Salary"]

\* C7 as amended: the returned Total Salary for fte = k * f differs from k
\* times the returned Total Salary for fte = f by at most one cent.
C7_TotalScalesWithinOneCent ==
  (Returned /\ IsSalary(result) /\ start_date <= end_date)
    => \A k \in Factors :
         LET d == Pow10(k.exp) * TotalSalaryFor(FteTimes(fte, k))
                    - k.num * result["Total Salary"]
         IN AbsInt(d) <= Pow10(k.exp)

C7_Witness ==
  /\ Returned /\ IsSalary(result) /\ start_date < end_date
  /\ fte = Fte(1, 0)
  /\ paid_before > 20 /\ paid_after > 20
  /\ 10 * TotalSalaryFor(Fte(3, 1)) # 3 * result["Total Salary"]

IsPublicHoliday(d) ==
  \E i \in 1..Len(PUBLIC_HOLIDAYS) :
    PUBLIC_HOLIDAYS[i][1] = DayMonthOf[d][1] /\ PUBLIC_HOLIDAYS[i][2] = DayMonthOf[d][2]

WorkingDates(s, e) == { d \in s..e : Weekday(d) \in 0..4 /\ ~ IsPublicHoliday(d) }

\* C9: the working-day count of a counted sub-range [s, e], s <= e, is the
\* number of its Monday-to-Friday dates whose (day, month) is no public
\* holiday, in whatever year; so a holiday on a Saturday or Sunday removes
\* nothing, and a one-day range counts 1 or 0.
C9_WorkingDaysAreNonHolidayWeekdays ==
  Counted
    => /\ \A i \in 1..Len(counted_before) :
            LET s == counted_before[i][1]
                e == counted_before[i][2]
            IN (s <= e) =>
                 /\ work_before = Cardinality(WorkingDates(s, e))
                 /\ (s = e) => work_before =
                      (IF Weekday(s) < 5 /\ ~ IsPublicHoliday(s) THEN 1 ELSE 0)
       /\ \A i \in 1..Len(counted_after) :
            LET s == counted_after[i][1]
                e == counted_after[i][2]
            IN (s <= e) =>
                 /\ work_after = Cardinality(WorkingDates(s, e))
                 /\ (s = e) => work_after =
                      (IF Weekday(s) < 5 /\ ~ IsPublicHoliday(s) THEN 1 ELSE 0)

\* 2026-04-24 (Friday) to 2026-06-08 (a Monday holiday), across the Saturday
\* holiday 2026-04-25: 46 days, 32 weekdays, 31 working days
C9_Witness ==
  /\ Returned /\ row # <<>>
  /\ counted_before = << <<Ymd2Ord(<<2026,4,24>>), Ymd2Ord(<<2026,6,8>>)>> >>
  /\ work_before = 31

LeaveBefore == paid_before - work_before

LeaveAfter == paid_after - work_after

FlatLeave ==
  /\ LeaveBefore = (IF counted_before # <<>> THEN 20 ELSE 0)
  /\ LeaveAfter = (IF counted_after # <<>> THEN 20 ELSE 0)
  /\ result["Paid Days Before Increase"] - result["Working Days Before Increase"]
       = LeaveBefore
  /\ result["Paid Days After Increase"] - result["Working Days After Increase"]
       = LeaveAfter
  /\ LeaveBefore + LeaveAfter
       = (IF counted_before # <<>> /\ counted_after # <<>> THEN 40 ELSE 20)

\* C10 as claimed: in a salary result each side's paid days exceed its
\* working days by 20 when the side was counted and by 0 when it was not, so
\* 20 in all for a one-sided request and 40 for a straddling one, and the
\* Total Salary is strictly positive whenever fte > 0.
C10_FlatLeaveAndPositiveTotal ==
  (Returned /\ IsSalary(result))
    => /\ FlatLeave
       /\ (fte.num > 0) => result["Total Salary"] > 0

\* C10 as amended: the same, with the Total Salary strictly positive whenever
\* fte >= 0.000001 and never negative for fte > 0.
C10_FlatLeaveAndPositiveTotalFromMicroFte ==
  (Returned /\ IsSalary(result))
    => /\ FlatLeave
       /\ (fte.num > 0) => result["Total Salary"] >= 0
       /\ (fte.num > 0 /\ fte.num * Pow10(6) >= Pow10(fte.exp))
            => result["Total Salary"] > 0

\* a single Saturday, before the increase, at fte 0.000001
C10_Witness ==
  /\ Returned /\ IsSalary(result)
  /\ start_date = end_date /\ Weekday(start_date) = 5
  /\ work_before = 0 /\ paid_before = 20 /\ work_after = 0 /\ paid_after = 0
  /\ fte = Fte(1, 6)
  /\ result["Total Salary"] > 0

====
